---- MODULE Spec2Model ----
(***************************************************************************)
(* A model of rf.py: CART decision trees (TreeNode, ClassifierTree) and    *)
(* the bagged RandomForest built from them.                                *)
(*                                                                         *)
(* Conventions.                                                            *)
(*  - Python's None is the empty sequence <<>>, a set value v is <<v>>.     *)
(*  - Class labels are the integers 1..MaxLabel; feature values are the    *)
(*    integers 1..MaxValue; column and row indices are 1-based.            *)
(*  - Impurities and thresholds are exact rationals <<num, den>> with      *)
(*    den > 0 in lowest terms; the float NaN that numpy produces for a     *)
(*    ratio with a zero denominator is the value NaN == <<0, 0>>.          *)
(*  - A tree is a function from paths (sequences of 0 = left, 1 = right,   *)
(*    <<>> = root) to TreeNode records.                                    *)
(*  - np.argsort's default kind is not stable: the order of rows with      *)
(*    equal feature values is a nondeterministic choice (SortPerms).       *)
(*  - sample() and resample() are nondeterministic choices.                *)
(***************************************************************************)
EXTENDS Integers, Sequences, FiniteSets, TLC

(* ------------------------------ bounds -------------------------------- *)
MaxLabel == 3
MaxValue == 2
MaxRows == 4
MaxCols == 2
MaxCells == 6
MaxTrainings == 2
MaxFitRows == 2
MaxFitCols == 1
MaxTestRows == 2
MaxClassifiers == 3
MaxTrees == 3
MaxFits == 2

Labels == 1..MaxLabel
Values == 1..MaxValue

(* --------------------------- exact numbers ---------------------------- *)
Abs(n) == IF n < 0 THEN -n ELSE n

RECURSIVE GCD(_, _)
GCD(a, b) == IF b = 0 THEN a ELSE GCD(b, a % b)

NaN == <<0, 0>>

IsNaN(r) == r[2] = 0

Rat(n, d) ==
    IF d = 0 THEN NaN
    ELSE LET g == GCD(Abs(n), Abs(d))
             s == IF d < 0 THEN -1 ELSE 1
         IN  <<(s * n) \div g, (s * d) \div g>>

RatLt(a, b) == ~IsNaN(a) /\ ~IsNaN(b) /\ a[1] * b[2] < b[1] * a[2]

RatLe(a, b) == ~IsNaN(a) /\ ~IsNaN(b) /\ a[1] * b[2] <= b[1] * a[2]

RatSub(a, b) ==
    IF IsNaN(a) \/ IsNaN(b) THEN NaN
    ELSE Rat(a[1] * b[2] - b[1] * a[2], a[2] * b[2])

RECURSIVE SumSeq(_)
SumSeq(s) == IF s = <<>> THEN 0 ELSE Head(s) + SumSeq(Tail(s))

ISqrt(n) == CHOOSE r \in 0..n : r * r <= n /\ (r + 1) * (r + 1) > n

Range(s) == {s[i] : i \in DOMAIN s}

(* The sequence f as an explicit tuple (TLC otherwise re-evaluates the body  *)
(* of a function expression at every application).                          *)
AsSeq(f) == f \o <<>>

RECURSIVE SortedSeq(_)
SortedSeq(S) ==
    IF S = {} THEN <<>>
    ELSE LET m == CHOOSE a \in S : \A b \in S : a <= b
         IN  <<m>> \o SortedSeq(S \ {m})

CountOf(s, v) == Cardinality({i \in DOMAIN s : s[i] = v})

(* Python's min(list) / min(list, key=...): keep the first element, replace *)
(* it only by an element that compares strictly less.  A NaN never compares *)
(* less, and nothing compares less than a NaN.                             *)
RECURSIVE PyMinFrom(_, _, _)
PyMinFrom(g, i, best) ==
    IF i > Len(g) THEN best
    ELSE PyMinFrom(g, i + 1, IF RatLt(g[i], g[best]) THEN i ELSE best)

PyMinIndex(g) == PyMinFrom(g, 2, 1)

(* Counter(seq): the distinct values of seq in order of first occurrence.   *)
RECURSIVE CounterKeys(_)
CounterKeys(s) ==
    IF s = <<>> THEN <<>>
    ELSE LET k == CounterKeys(SubSeq(s, 1, Len(s) - 1))
         IN  IF s[Len(s)] \in Range(k) THEN k ELSE Append(k, s[Len(s)])

(* The head of sorted(items, key=count, reverse=True): the sort is stable,  *)
(* so a later key replaces an earlier one only with a strictly larger count *)
RECURSIVE MostCommonFrom(_, _, _, _)
MostCommonFrom(s, keys, i, best) ==
    IF i > Len(keys) THEN best
    ELSE MostCommonFrom(s, keys, i + 1,
            IF CountOf(s, keys[i]) > CountOf(s, keys[best]) THEN i ELSE best)

MostCommon_LastSeen(s) ==
    CHOOSE v \in Range(s) :
        \A w \in Range(s) :
            \/ CountOf(s, v) > CountOf(s, w)
            \/ /\ CountOf(s, v) = CountOf(s, w)
               /\ \A i \in DOMAIN s : s[i] = w => \E j \in i..Len(s) : s[j] = v

(* Counter(seq).most_common()[0][0]                                         *)
MostCommon(s) ==
    LET keys == CounterKeys(s)
    IN  keys[MostCommonFrom(s, keys, 2, 1)]

Injective(f) == \A i, j \in DOMAIN f : f[i] = f[j] => i = j

(* ------------------------------ TreeNode ------------------------------ *)
TreeNode(n_features) ==
    [n_features    |-> n_features,
     left_child    |-> <<>>,
     right_child   |-> <<>>,
     split_feature |-> <<>>,
     split_value   |-> <<>>,
     split_gini    |-> <<1, 1>>,
     label         |-> <<>>]

is_leaf(node) == node.label # <<>>

HasTwoChildren(node) == node.left_child # <<>> /\ node.right_child # <<>>

(* OneHotEncoder(categories='auto').fit_transform: one column per distinct  *)
(* label of y, columns in sorted label order.                              *)
OneHot(y) ==
    LET cls == SortedSeq(Range(y))
    IN  AsSeq([i \in DOMAIN y |->
                  AsSeq([j \in DOMAIN cls |-> IF y[i] = cls[j] THEN 1 ELSE 0])])

(* a[a[:, 0].argsort()]: the orders argsort may return for column f.        *)
SortPerms(f) ==
    {p \in Permutations(DOMAIN f) : \A i \in 1..(Len(f) - 1) : f[p[i]] <= f[p[i + 1]]}

(* TreeNode.gini for the column f, labels y and one-hot rows tg of one node, *)
(* with perm the order argsort returned.                                   *)
GiniCands(f, y, tg, perm) ==
    LET N         == Len(f)
        classes   == SortedSeq(Range(y))
        n_classes == Len(classes)
        counts    == AsSeq([i \in 1..n_classes |-> CountOf(y, classes[i])])
        width     == Len(tg[1])
        col(i)    == width - n_classes + i
        left(c)   == AsSeq([i \in 1..n_classes |->
                         SumSeq([m \in 1..c |-> tg[perm[m]][col(i)]])])
        sq(v)     == [i \in DOMAIN v |-> v[i] * v[i]]
        s         == SumSeq(counts)
        g(c)      == LET l     == left(c)
                         r     == AsSeq([i \in 1..n_classes |-> counts[i] - l[i]])
                         sum_1 == SumSeq(l)
                         sum_2 == SumSeq(r)
                     IN  IF sum_1 = 0 \/ sum_2 = 0 THEN NaN
                         ELSE Rat((sum_1 * sum_1 - SumSeq(sq(l))) * sum_2
                                    + (sum_2 * sum_2 - SumSeq(sq(r))) * sum_1,
                                  sum_1 * sum_2 * s)
    IN  AsSeq([c \in 1..(N - 1) |-> g(c)])

SplitPoints(f, perm) ==
    AsSeq([c \in 1..(Len(f) - 1) |-> Rat(f[perm[c]] + f[perm[c + 1]], 2)])

(* min_g = min(g); split_value = split[g.index(min_g)].  The record also    *)
(* keeps the call's arguments and candidates.                               *)
GiniResult(f, y, perm, g, k) ==
    [split_value |-> SplitPoints(f, perm)[k], min_g |-> g[k],
     cands |-> g, f |-> f, y |-> y, perm |-> perm]

GiniMin(f, y, perm, g) == GiniResult(f, y, perm, g, PyMinIndex(g))

gini(f, y, tg, perm) == GiniMin(f, y, perm, GiniCands(f, y, tg, perm))

(* sample(range(n), k): k distinct columns in any order.                    *)
Samples(n, k) == {s \in [1..k -> 1..n] : Injective(s)}

Column(x, rows, c) == AsSeq([i \in DOMAIN rows |-> x[rows[i]][c]])

Sub(v, rows) == AsSeq([i \in DOMAIN rows |-> v[rows[i]]])

PermChoices(x, rows, index) ==
    LET sp == [i \in DOMAIN index |-> SortPerms(Column(x, rows, index[i]))]
    IN  {ps \in [DOMAIN index -> UNION Range(sp)] : \A i \in DOMAIN index : ps[i] \in sp[i]}

(* TreeNode.split_feature_value; index is the sampled subspace.             *)
MinGini(index, value_g, k) ==
    [feature |-> index[k], value |-> value_g[k].split_value,
     gini |-> value_g[k].min_g, calls |-> value_g]

(* result = min(value_g, key=t[1]); feature = index[value_g.index(result)]  *)
PickFeature(index, value_g) ==
    MinGini(index, value_g,
            PyMinIndex(AsSeq([i \in DOMAIN index |-> value_g[i].min_g])))

ValueG(x, ys, tgs, rows, index, perms) ==
    AsSeq([i \in DOMAIN index |-> gini(Column(x, rows, index[i]), ys, tgs, perms[i])])

split_feature_value(x, y, tg, rows, index, perms) ==
    PickFeature(index, ValueG(x, Sub(y, rows), Sub(tg, rows), rows, index, perms))

(* x[:, feature] <= value and x[:, feature] > value, as row selections.      *)
Index1(x, rows, feature, value) ==
    SelectSeq(rows, LAMBDA i : RatLe(<<x[i][feature], 1>>, value))

Index2_Ge(x, rows, feature, value) ==
    SelectSeq(rows, LAMBDA i : RatLe(value, <<x[i][feature], 1>>))

Index2(x, rows, feature, value) ==
    SelectSeq(rows, LAMBDA i : RatLt(value, <<x[i][feature], 1>>))

(* Stop criterion A: one class, or the majority covers more than 90%.       *)
StopMajority(ys, count) == Cardinality(Range(ys)) = 1 \/ 10 * count > 9 * Len(ys)

(* Stop criterion B: the impurity decrease is below 0.01.                   *)
StopGini(floor, split_gini) == RatLt(RatSub(floor, split_gini), <<1, 100>>)

(* Stop criterion C: one side of the partition is empty.                    *)
StopEmpty(index1, index2) == index2 = <<>> \/ index1 = <<>>

Leaf(label, calls) == [kind |-> "leaf", label |-> label, calls |-> calls]

(* attempt_split after split_feature_value returned r: criteria B and C,    *)
(* else the split.                                                          *)
SplitOrStop(floor, label, r, index1, index2) ==
    IF StopGini(floor, r.gini) THEN Leaf(label, r.calls)
    ELSE IF StopEmpty(index1, index2) THEN Leaf(label, r.calls)
    ELSE [kind |-> "split", label |-> label, calls |-> r.calls,
          feature |-> r.feature, value |-> r.value, gini |-> r.gini,
          rows1 |-> index1, rows2 |-> index2]

Partitioned(floor, label, x, rows, r) ==
    SplitOrStop(floor, label, r, Index1(x, rows, r.feature, r.value),
                Index2(x, rows, r.feature, r.value))

Majority(floor, x, y, tg, rows, index, perms, ys, label) ==
    IF StopMajority(ys, CountOf(ys, label)) THEN Leaf(label, <<>>)
    ELSE IF index = <<>> THEN [kind |-> "raise", label |-> label, calls |-> <<>>]
    ELSE Partitioned(floor, label, x, rows,
                     split_feature_value(x, y, tg, rows, index, perms))

WithLabels(floor, x, y, tg, rows, index, perms, ys) ==
    Majority(floor, x, y, tg, rows, index, perms, ys, MostCommon(ys))

(* The decision of one attempt_split call on the rows of one node whose     *)
(* inherited impurity is floor: "leaf", "split" or "raise" (min() of an     *)
(* empty list when no column is sampled, or sample() itself raising).       *)
AttemptSplitOutcome(floor, x, y, tg, rows, index, perms) ==
    WithLabels(floor, x, y, tg, rows, index, perms, Sub(y, rows))

(* The choices one attempt_split call draws: the sampled columns and the    *)
(* order argsort returns for each; none is drawn when criterion A stops it  *)
(* or when sample() raises because more columns are asked than there are.   *)
Draws(n_features, x, y, rows) ==
    LET ys == Sub(y, rows)
    IN  IF StopMajority(ys, CountOf(ys, MostCommon(ys))) \/ n_features > Len(x[1])
        THEN {[index |-> <<>>, perms |-> <<>>]}
        ELSE {[index |-> index, perms |-> perms] :
                 <<index, perms>> \in
                    UNION {{<<i, ps>> : ps \in PermChoices(x, rows, i)} :
                              i \in Samples(Len(x[1]), n_features)}}

IsPrefix(p, q) == Len(p) <= Len(q) /\ SubSeq(q, 1, Len(p)) = p

LeftOf(p) == Append(p, 0)

RightOf(p) == Append(p, 1)

(* self.label = label                                                       *)
SetLeaf(node, label) == [node EXCEPT !.label = <<label>>]

SetInternal_LabelToo(node, p, out) ==
    [node EXCEPT !.split_feature = <<out.feature>>,
                 !.split_value = <<out.value>>,
                 !.split_gini = out.gini,
                 !.left_child = <<LeftOf(p)>>,
                 !.right_child = <<RightOf(p)>>,
                 !.label = <<out.label>>]

(* The node commits to the split: feature, value, gini and two children.    *)
SetInternal(node, p, out) ==
    [node EXCEPT !.split_feature = <<out.feature>>,
                 !.split_value = <<out.value>>,
                 !.split_gini = out.gini,
                 !.left_child = <<LeftOf(p)>>,
                 !.right_child = <<RightOf(p)>>]

(* A child: a new TreeNode that inherits the parent's achieved impurity.    *)
NewChild(node, out) == [TreeNode(node.n_features) EXCEPT !.split_gini = out.gini]

(* The tree after the call on node p decided out.  A split replaces p's old *)
(* subtree, if any, by two new children; a leaf leaves the rest as it is.   *)
ApplyOutcome(tree, p, out) ==
    IF out.kind = "leaf" THEN [tree EXCEPT ![p] = SetLeaf(tree[p], out.label)]
    ELSE IF out.kind = "split"
    THEN [q \in {r \in DOMAIN tree : ~(IsPrefix(p, r) /\ r # p)}
                  \cup {LeftOf(p), RightOf(p)} |->
             IF q = p THEN SetInternal(tree[p], p, out)
             ELSE IF q \in {LeftOf(p), RightOf(p)} THEN NewChild(tree[p], out)
             ELSE tree[q]]
    ELSE tree

(* attempt_split on node p and, recursively, on the children it creates:   *)
(* the outcomes of the whole recursion, over every draw.  ok is FALSE when  *)
(* a call raised, which ends the recursion.                                 *)
RECURSIVE GrowSet(_, _, _, _, _, _)
RECURSIVE GrowFrom(_, _, _, _, _, _)
GrowFrom(tree, p, out, x, y, tg) ==
    IF out.kind = "leaf" THEN {[ok |-> TRUE, tree |-> ApplyOutcome(tree, p, out)]}
    ELSE IF out.kind = "raise" THEN {[ok |-> FALSE, tree |-> tree]}
    ELSE UNION {IF l.ok THEN GrowSet(l.tree, RightOf(p), out.rows2, x, y, tg)
                ELSE {l} :
                   l \in GrowSet(ApplyOutcome(tree, p, out), LeftOf(p), out.rows1,
                                 x, y, tg)}

GrowSet(tree, p, rows, x, y, tg) ==
    UNION {GrowFrom(tree, p,
                    AttemptSplitOutcome(tree[p].split_gini, x, y, tg, rows,
                                        d.index, d.perms),
                    x, y, tg)
           : d \in Draws(tree[p].n_features, x, y, rows)}

(* TreeNode.sort: <<label>>, or <<>> when it raises on a node that is       *)
(* neither a leaf nor split (x[None] <= None).                              *)
RECURSIVE sort(_, _, _)
sort(tree, p, x) ==
    LET n == tree[p]
    IN  IF n.label # <<>> THEN n.label
        ELSE IF n.split_feature = <<>> THEN <<>>
        ELSE IF RatLe(<<x[n.split_feature[1]], 1>>, n.split_value[1])
             THEN sort(tree, n.left_child[1], x)
             ELSE sort(tree, n.right_child[1], x)

(* ClassifierTree(n_features); trained counts the train calls completed.    *)
ClassifierTree(n_features) == [root |-> (<<>> :> TreeNode(n_features)), trained |-> 0]

(* ClassifierTree.classify: one sort result per row.                        *)
classify(t, x) == AsSeq([i \in DOMAIN x |-> sort(t.root, <<>>, x[i])])

(* resample(x, y) raises on inconsistent lengths; an empty sample cannot be *)
(* trained on (Counter(y).most_common()[0] at the latest).                  *)
Untrainable(x, y) == Len(x) # Len(y) \/ Len(y) = 0

(* resample: n row indices drawn with replacement.                          *)
Bootstraps(n) == [1..n -> 1..n]

(* build_tree: the outcomes of one training task on tree t.                 *)
build_tree(t, x, y) ==
    IF Untrainable(x, y) THEN {[ok |-> FALSE, tree |-> t]}
    ELSE UNION {{[ok |-> g.ok,
                  tree |-> [root |-> g.tree, trained |-> t.trained + 1]] :
                    g \in GrowSet(t.root, <<>>, AsSeq([i \in DOMAIN y |-> i]),
                                  Sub(x, b), Sub(y, b), OneHot(Sub(y, b)))}
                : b \in Bootstraps(Len(y))}

MapSucceeded_NoneLeft(ts) == \A i \in DOMAIN ts : ts[i].status # "pending"

(* pool.map returns its results once every task has returned normally.      *)
MapSucceeded(ts) == \A i \in DOMAIN ts : ts[i].status = "done"

(* pool.map raises once a task has raised.                                  *)
MapFailed(ts) == \E i \in DOMAIN ts : ts[i].status = "raised"

(* The votes for row i: pred[:, i].                                         *)
Votes(pred, i) == AsSeq([t \in DOMAIN pred |-> pred[t][i][1]])

(* RandomForest.predict: "raised", or the list of the rows' majority votes. *)
predict(cls, x_test) ==
    LET pred == AsSeq([t \in DOMAIN cls |-> classify(cls[t], x_test)])
    IN  IF cls = <<>> \/ \E t \in DOMAIN pred : \E i \in DOMAIN x_test : pred[t][i] = <<>>
        THEN [outcome |-> "raised", result |-> <<>>]
        ELSE [outcome |-> "returned",
              result |-> AsSeq([i \in DOMAIN x_test |-> MostCommon(Votes(pred, i))])]

(* ------------------------------ state -------------------------------- *)
(* One tree trained stepwise: the (x, y) given to train, its one-hot        *)
(* target, the tree's nodes, the stack of pending attempt_split calls.      *)
(* The forest: its fields, the state of the running fit (fpc, tasks), and   *)
(* what the last fit and predict calls returned.                            *)
VARIABLES tx, ty, target, nodes, stack, pc, runs, trainings, giniLog,
          n_classifiers, classifiers, self_x, self_y, fpc, tasks,
          fits, raisedFits, fitOutcome, predX, predOutcome, predResult

treeVars == <<tx, ty, target, nodes, stack, pc, runs, trainings, giniLog>>

forestVars == <<n_classifiers, classifiers, self_x, self_y, fpc, tasks,
                fits, raisedFits, fitOutcome, predX, predOutcome, predResult>>

vars == <<tx, ty, target, nodes, stack, pc, runs, trainings, giniLog,
          n_classifiers, classifiers, self_x, self_y, fpc, tasks,
          fits, raisedFits, fitOutcome, predX, predOutcome, predResult>>

NoForest ==
    /\ n_classifiers = 0 /\ classifiers = <<>> /\ self_x = <<>> /\ self_y = <<>>
    /\ fpc = "idle" /\ tasks = <<>> /\ fits = 0 /\ raisedFits = 0
    /\ fitOutcome = "none"
    /\ predX = <<>> /\ predOutcome = "none" /\ predResult = <<>>

NoTree ==
    /\ tx = <<>> /\ ty = <<>> /\ target = <<>> /\ nodes = <<>> /\ stack = <<>>
    /\ pc = "idle" /\ runs = <<>> /\ trainings = 0 /\ giniLog = <<>>

(* ---------------------- one tree, trained stepwise -------------------- *)
InitTree ==
    /\ \E n \in 1..MaxRows, c \in 1..MaxCols :
          /\ n * c <= MaxCells
          /\ tx \in [1..n -> [1..c -> Values]]
          /\ ty \in [1..n -> Labels]
    /\ target = <<>>
    /\ nodes = (<<>> :> TreeNode(ISqrt(Len(tx[1]))))
    /\ stack = <<>>
    /\ pc = "idle"
    /\ runs = (<<>> :> 0)
    /\ trainings = 0
    /\ giniLog = <<>>
    /\ NoForest

(* ClassifierTree.train up to the call of root.attempt_split.               *)
train ==
    /\ pc = "idle"
    /\ trainings < MaxTrainings
    /\ target' = OneHot(ty)
    /\ stack' = <<[node |-> <<>>, rows |-> AsSeq([i \in DOMAIN ty |-> i])]>>
    /\ pc' = "training"
    /\ trainings' = trainings + 1
    /\ giniLog' = <<>>
    /\ UNCHANGED <<tx, ty, nodes, runs>>
    /\ UNCHANGED forestVars

(* The body of one attempt_split call: the call on top of the stack.  The   *)
(* recursive calls on the children are pushed, left first.  runs counts the *)
(* calls made on each node; giniLog keeps the gini calls of this body.      *)
attempt_split ==
    /\ pc = "training"
    /\ stack # <<>>
    /\ LET p    == Head(stack).node
           rows == Head(stack).rows
           rest == Tail(stack)
       IN  \E d \in Draws(nodes[p].n_features, tx, ty, rows) :
           \E out \in {AttemptSplitOutcome(nodes[p].split_gini, tx, ty, target,
                                           rows, d.index, d.perms)} :
                 /\ giniLog' = out.calls
                 /\ nodes' = ApplyOutcome(nodes, p, out)
                 /\ runs' = [q \in DOMAIN nodes' |->
                               IF q = p THEN runs[p] + 1
                               ELSE IF out.kind = "split" /\ q \in {LeftOf(p), RightOf(p)}
                               THEN 0 ELSE runs[q]]
                 /\ stack' = IF out.kind = "split"
                             THEN <<[node |-> LeftOf(p), rows |-> out.rows1],
                                    [node |-> RightOf(p), rows |-> out.rows2]>> \o rest
                             ELSE IF out.kind = "leaf" THEN rest ELSE <<>>
                 /\ pc' = IF out.kind = "raise" THEN "raised"
                          ELSE IF out.kind = "leaf" /\ rest = <<>> THEN "idle"
                          ELSE "training"
    /\ UNCHANGED <<tx, ty, target, trainings>>
    /\ UNCHANGED forestVars

NextTree == train \/ attempt_split

SpecTree == InitTree /\ [][NextTree]_vars

(* ------------------------------ the forest ---------------------------- *)
(* The arguments of fit: x with any number of rows (of ncols columns each)  *)
(* and y with any number of labels, aligned or not.                         *)
FitInputs ==
    UNION {[ncols : {c}, x : UNION {[1..n -> [1..c -> Values]] : n \in 0..MaxFitRows},
            y : UNION {[1..m -> Labels] : m \in 0..MaxFitRows}] : c \in 0..MaxFitCols}

TestInputs == UNION {[1..m -> [1..MaxFitCols -> Values]] : m \in 0..MaxTestRows}

(* RandomForest(n_classifiers)                                              *)
Init ==
    /\ n_classifiers \in 1..MaxClassifiers
    /\ classifiers = <<>>
    /\ self_x = <<>>
    /\ self_y = <<>>
    /\ fpc = "idle"
    /\ tasks = <<>>
    /\ fits = 0
    /\ raisedFits = 0
    /\ fitOutcome = "none"
    /\ predX = <<>>
    /\ predOutcome = "none"
    /\ predResult = <<>>
    /\ NoTree

(* fit up to the call of pool.map: the fields are set, n_classifiers new    *)
(* trees are appended, and one training task per listed tree is submitted.  *)
FitStart ==
    /\ fpc = "idle"
    /\ fits < MaxFits
    /\ Len(classifiers) + n_classifiers <= MaxTrees
    /\ \E in \in FitInputs :
          LET n_select_features == ISqrt(in.ncols)
              all == classifiers \o
                       AsSeq([i \in 1..n_classifiers |-> ClassifierTree(n_select_features)])
          IN  /\ self_x' = in.x
              /\ self_y' = in.y
              /\ classifiers' = all
              /\ tasks' = AsSeq([i \in DOMAIN all |->
                                    [status |-> "pending", result |-> all[i]]])
    /\ fpc' = "mapping"
    /\ fits' = fits + 1
    /\ fitOutcome' = "none"
    /\ predX' = <<>>
    /\ predOutcome' = "none"
    /\ predResult' = <<>>
    /\ UNCHANGED <<n_classifiers, raisedFits>>
    /\ UNCHANGED treeVars

(* One task of pool.map: build_tree on a copy of tree i, in a worker.       *)
TaskRun ==
    /\ fpc = "mapping"
    /\ \E i \in DOMAIN tasks :
          /\ tasks[i].status = "pending"
          /\ \E r \in build_tree(classifiers[i], self_x, self_y) :
                tasks' = [tasks EXCEPT ![i] =
                            [status |-> IF r.ok THEN "done" ELSE "raised",
                             result |-> r.tree]]
    /\ UNCHANGED <<n_classifiers, classifiers, self_x, self_y, fpc, fits, raisedFits,
                   fitOutcome, predX, predOutcome, predResult>>
    /\ UNCHANGED treeVars

(* pool.map returns the trained copies; fit stores them and returns.        *)
FitReturn ==
    /\ fpc = "mapping"
    /\ MapSucceeded(tasks)
    /\ classifiers' = AsSeq([i \in DOMAIN tasks |-> tasks[i].result])
    /\ fpc' = "idle"
    /\ fitOutcome' = "returned"
    /\ UNCHANGED <<n_classifiers, self_x, self_y, tasks, fits, raisedFits,
                   predX, predOutcome, predResult>>
    /\ UNCHANGED treeVars

(* pool.map re-raises a task's exception; fit propagates it.                *)
FitRaise ==
    /\ fpc = "mapping"
    /\ MapFailed(tasks)
    /\ fpc' = "idle"
    /\ fitOutcome' = "raised"
    /\ raisedFits' = raisedFits + 1
    /\ UNCHANGED <<n_classifiers, classifiers, self_x, self_y, tasks, fits,
                   predX, predOutcome, predResult>>
    /\ UNCHANGED treeVars

(* RandomForest.predict(x_test)                                             *)
Predict ==
    /\ fpc = "idle"
    /\ \E x_test \in TestInputs :
          LET r == predict(classifiers, x_test)
          IN  /\ predX' = x_test
              /\ predOutcome' = r.outcome
              /\ predResult' = r.result
    /\ UNCHANGED <<n_classifiers, classifiers, self_x, self_y, fpc, tasks, fits,
                   raisedFits, fitOutcome>>
    /\ UNCHANGED treeVars

Next == FitStart \/ TaskRun \/ FitReturn \/ FitRaise \/ Predict

Spec == Init /\ [][Next]_vars

(* ------------------- properties of one tree's training ---------------- *)
AllRows == AsSeq([i \in DOMAIN ty |-> i])

(* The rows of the training set that the splits stored above node p route   *)
(* to p: the subset attempt_split received at p.                            *)
RECURSIVE RowsAt(_)
RowsAt(p) ==
    IF p = <<>> THEN AllRows
    ELSE LET q == SubSeq(p, 1, Len(p) - 1)
             n == nodes[q]
         IN  IF p[Len(p)] = 0
             THEN SelectSeq(RowsAt(q),
                     LAMBDA i : RatLe(<<tx[i][n.split_feature[1]], 1>>, n.split_value[1]))
             ELSE SelectSeq(RowsAt(q),
                     LAMBDA i : ~RatLe(<<tx[i][n.split_feature[1]], 1>>, n.split_value[1]))

(* Sum over the classes of the squared class count of the labels ys.        *)
SumSqCounts(ys) == SumSeq(AsSeq([v \in 1..MaxLabel |-> CountOf(ys, v) * CountOf(ys, v)]))

(* (left_total*gini_left + right_total*gini_right)/N of a two-way partition *)
(* with labels yl on the left and yr on the right, both non-empty.          *)
WeightedGini(yl, yr) ==
    LET lt == Len(yl)
        rt == Len(yr)
    IN  Rat((lt * lt - SumSqCounts(yl)) * rt + (rt * rt - SumSqCounts(yr)) * lt,
            lt * rt * (lt + rt))

(* The weighted Gini of every sorted-position candidate of a gini call.     *)
TrueCands(call) ==
    LET ys == AsSeq([m \in DOMAIN call.y |-> call.y[call.perm[m]]])
    IN  AsSeq([c \in 1..(Len(ys) - 1) |->
                  WeightedGini(SubSeq(ys, 1, c), SubSeq(ys, c + 1, Len(ys)))])

FirstMin(g) ==
    CHOOSE c \in DOMAIN g :
        /\ \A d \in DOMAIN g : RatLe(g[c], g[d])
        /\ \A d \in 1..(c - 1) : g[d] # g[c]

(* C6: every gini call returns the minimum of the candidates' true weighted *)
(* Gini, which is <= every candidate's, and the midpoint of the first       *)
(* candidate that achieves it.                                              *)
C6_GiniIsTrueMinimum ==
    \A k \in DOMAIN giniLog :
        LET call == giniLog[k]
            tw   == TrueCands(call)
        IN  /\ \A c \in DOMAIN tw : RatLe(call.min_g, tw[c])
            /\ call.min_g = tw[FirstMin(tw)]
            /\ call.split_value = SplitPoints(call.f, call.perm)[FirstMin(tw)]

(* C9: no NaN is a candidate's impurity, is returned by gini or is stored   *)
(* as a node's split_gini.                                                  *)
C9_NoNaN ==
    /\ \A k \in DOMAIN giniLog :
          /\ \A c \in DOMAIN giniLog[k].cands : ~IsNaN(giniLog[k].cands[c])
          /\ ~IsNaN(giniLog[k].min_g)
    /\ \A p \in DOMAIN nodes : ~IsNaN(nodes[p].split_gini)

(* C10: the split_gini stored in an internal node is the weighted Gini of   *)
(* the partition applied at it (rows <= split_value, rows > split_value).   *)
C10_StoredGiniIsApplied ==
    \A p \in DOMAIN nodes :
        HasTwoChildren(nodes[p]) =>
            /\ nodes[p].split_gini =
                 WeightedGini(Sub(ty, RowsAt(LeftOf(p))), Sub(ty, RowsAt(RightOf(p))))
            /\ nodes[LeftOf(p)].split_gini = nodes[p].split_gini \/ runs[LeftOf(p)] > 0
            /\ nodes[RightOf(p)].split_gini = nodes[p].split_gini \/ runs[RightOf(p)] > 0

(* C1 as stated: every node, at any time, is a leaf or has two children,    *)
(* and never both.                                                          *)
C1_ExactlyOneAlways ==
    \A p \in DOMAIN nodes : is_leaf(nodes[p]) # HasTwoChildren(nodes[p])

(* C1 amended: a node on which attempt_split has not run yet is neither a   *)
(* leaf nor has children; a node on which it has run once is exactly one of *)
(* leaf (label set, no child) and internal (two children, label unset); a   *)
(* node on which it has run again is a leaf or has two children, possibly   *)
(* both.  No node has exactly one child.                                    *)
C1_LeafXorChildrenOnceSplit ==
    \A p \in DOMAIN nodes :
        LET n == nodes[p]
        IN  /\ (n.left_child = <<>>) = (n.right_child = <<>>)
            /\ runs[p] = 0 => ~is_leaf(n) /\ ~HasTwoChildren(n)
            /\ runs[p] = 1 => is_leaf(n) # HasTwoChildren(n)
            /\ runs[p] >= 1 => is_leaf(n) \/ HasTwoChildren(n)

(* An internal node whose left child is already a leaf and whose right      *)
(* child still awaits its attempt_split call.                               *)
C1_Witness ==
    \E p \in DOMAIN nodes :
        /\ runs[p] = 1 /\ HasTwoChildren(nodes[p]) /\ ~is_leaf(nodes[p])
        /\ runs[LeftOf(p)] = 1 /\ is_leaf(nodes[LeftOf(p)])
        /\ runs[RightOf(p)] = 0

Parent(p) == SubSeq(p, 1, Len(p) - 1)

RECURSIVE Leaves(_)
Leaves(p) ==
    IF is_leaf(nodes[p]) \/ ~HasTwoChildren(nodes[p]) THEN 1
    ELSE Leaves(LeftOf(p)) + Leaves(RightOf(p))

RECURSIVE Depth(_)
Depth(p) ==
    IF is_leaf(nodes[p]) \/ ~HasTwoChildren(nodes[p]) THEN 0
    ELSE LET l == Depth(LeftOf(p))
             r == Depth(RightOf(p))
         IN  1 + (IF l > r THEN l ELSE r)

(* The work left: every pending call counts twice its rows less one.       *)
Measure == SumSeq(AsSeq([k \in DOMAIN stack |-> 2 * Len(stack[k].rows) - 1]))

C8_Inv ==
    /\ pc # "raised"
    /\ pc = "training" => stack # <<>> /\ Measure > 0
    /\ \A k \in DOMAIN stack :
          LET f == stack[k]
          IN  /\ f.rows # <<>>
              /\ f.rows = RowsAt(f.node)
              /\ f.node # <<>> => Len(f.rows) < Len(RowsAt(Parent(f.node)))
              /\ Draws(nodes[f.node].n_features, tx, ty, f.rows) # {}
    /\ (pc = "idle" /\ trainings > 0) =>
          /\ \A p \in DOMAIN nodes : is_leaf(nodes[p]) \/ HasTwoChildren(nodes[p])
          /\ Leaves(<<>>) <= Len(ty)
          /\ Depth(<<>>) <= Len(ty) - 1

(* C8: every pending attempt_split call has a non-empty row subset that is  *)
(* strictly smaller than its parent's and can always run; each call run     *)
(* strictly decreases the work left, which is a natural number, so training *)
(* terminates; when it has, every node is a leaf or internal and the tree   *)
(* has at most N leaves and depth at most N-1.                              *)
C8_Terminates ==
    /\ []C8_Inv
    /\ [][pc = "training" => /\ Measure' < Measure
                             /\ (pc' = "idle") = (Measure' = 0)]_vars

(* A finished tree that was split down to one leaf per training row.        *)
C8_Witness ==
    /\ pc = "idle" /\ trainings = 1
    /\ Len(ty) >= 3 /\ Leaves(<<>>) = Len(ty) /\ Depth(<<>>) = Len(ty) - 1

(* ------------------------ properties of the forest -------------------- *)
(* C2: after completed fit calls only, the forest holds exactly             *)
(* n_classifiers trees and each was trained exactly once.                   *)
C2_ExactlyNTreesTrainedOnce ==
    (fpc = "idle" /\ fitOutcome = "returned" /\ raisedFits = 0) =>
        /\ Len(classifiers) = n_classifiers
        /\ \A i \in DOMAIN classifiers : classifiers[i].trained = 1

Malformed(x, y) == Len(x) = 0 \/ Len(x) # Len(y)

(* C3: a fit call with an empty or misaligned (x, y) has failed without     *)
(* starting a training task and without leaving a new tree in the list.     *)
C3_MalformedFitBuildsNothing ==
    (fits > 0 /\ Malformed(self_x, self_y)) =>
        /\ fpc = "idle" /\ fitOutcome = "raised"
        /\ \A i \in DOMAIN tasks : tasks[i].status # "pending"
        /\ \A i \in DOMAIN classifiers : classifiers[i].trained >= 1

FirstPos(s, v) == CHOOSE i \in DOMAIN s : s[i] = v /\ \A j \in 1..(i - 1) : s[j] # v

(* The trees' votes for one row, in classifier order.                       *)
RowVotes(x) == AsSeq([t \in DOMAIN classifiers |-> sort(classifiers[t].root, <<>>, x)[1]])

(* C4: the label predicted for a row has a maximal vote count, and among    *)
(* the labels with that count it is the first one in classifier order; two  *)
(* trees that disagree yield the first tree's label.                        *)
C4_PredictIsFirstSeenMajority ==
    predOutcome = "returned" =>
        /\ DOMAIN predResult = DOMAIN predX
        /\ \A i \in DOMAIN predResult :
              LET votes == RowVotes(predX[i])
                  res   == predResult[i]
              IN  /\ res \in Range(votes)
                  /\ \A l \in Range(votes) :
                        /\ CountOf(votes, res) >= CountOf(votes, l)
                        /\ CountOf(votes, l) = CountOf(votes, res) =>
                              FirstPos(votes, res) <= FirstPos(votes, l)
                  /\ (Len(votes) = 2 /\ votes[1] # votes[2]) => res = votes[1]

(* predict returned on a tie: two trees, one vote each, the first tree's    *)
(* label returned.                                                          *)
C4_Witness ==
    /\ predOutcome = "returned"
    /\ \E i \in DOMAIN predResult :
          LET votes == RowVotes(predX[i])
          IN  Len(votes) = 2 /\ votes[1] # votes[2] /\ predResult[i] = votes[1]

(* C5: predict returns one label per input row, the label of row i being a  *)
(* vote cast for row i, and every returned label is a member of the y       *)
(* passed to fit.                                                           *)
C5_LabelsFromFitY ==
    predOutcome = "returned" =>
        /\ Len(predResult) = Len(predX)
        /\ \A i \in DOMAIN predResult :
              /\ predResult[i] \in Range(RowVotes(predX[i]))
              /\ predResult[i] \in Range(self_y)

Trained(t) == t.trained >= 1 /\ (is_leaf(t.root[<<>>]) \/ HasTwoChildren(t.root[<<>>]))

(* C7: fit has returned normally only if every training task completed, and *)
(* then every listed tree is trained; a fit one of whose tasks raised has   *)
(* raised; predict on a forest with an untrained tree returns no prediction *)
(* (it raises when given a row, and returns the empty list when given none).*)
C7_FitAllOrRaise ==
    /\ fitOutcome = "returned" =>
          /\ Len(tasks) = Len(classifiers) /\ Len(tasks) >= n_classifiers
          /\ \A i \in DOMAIN tasks : tasks[i].status = "done"
          /\ \A i \in DOMAIN classifiers : Trained(classifiers[i])
    /\ (fpc = "idle" /\ fits > 0) =>
          /\ fitOutcome \in {"returned", "raised"}
          /\ (\E i \in DOMAIN tasks : tasks[i].status = "raised") => fitOutcome = "raised"
    /\ (predOutcome = "returned" /\ \E i \in DOMAIN classifiers : ~Trained(classifiers[i])) =>
          predX = <<>> /\ predResult = <<>>

(* A fit that raised although one of its tasks had completed, and a predict *)
(* on the forest it left that raised as well.                               *)
C7_Witness ==
    /\ fitOutcome = "raised"
    /\ \E i \in DOMAIN tasks : tasks[i].status = "done"
    /\ \E i \in DOMAIN tasks : tasks[i].status = "raised"
    /\ predOutcome = "raised" /\ predX # <<>>

====
